---- MODULE Spec2Model ----
(***************************************************************************)
(* Candlestick chart scripts: the live replay (Chart-realtime.py) and the  *)
(* static two-pane view (Chart-static.py).                                 *)
(*                                                                         *)
(* A candle is modelled by its `time` (an integer instant); a day file is  *)
(* the sequence of its rows in file order.  A fill is a row of the trade   *)
(* log: its DataFrame index label, time, role, side and tag.  A marker     *)
(* label is modelled by its prefix and tag; the numeric "qty@price" suffix *)
(* of the label is not modelled.                                           *)
(***************************************************************************)
EXTENDS Integers, Sequences, FiniteSets, TLC

\* ------------------------------------------------------------------ bounds
MaxDay == 3
MaxTime == 3
MaxRows == 1
MaxFills == 2

Times == 1..MaxTime

\* ------------------------------------------------------------- timestamps
\* pandas' NaT: the min/max of an empty time column; every comparison with
\* it is False.
NaT == 0 - 1

TimeLe(a, b) == a # NaT /\ b # NaT /\ a <= b

TimeGt(a, b) == a # NaT /\ b # NaT /\ a > b

TimeEq(a, b) == a # NaT /\ b # NaT /\ a = b

RECURSIVE SeriesMax(_)
SeriesMax(s) ==
    IF s = <<>> THEN NaT
    ELSE LET m == SeriesMax(Tail(s))
         IN IF m = NaT \/ Head(s) > m THEN Head(s) ELSE m

RECURSIVE SeriesMin(_)
SeriesMin(s) ==
    IF s = <<>> THEN NaT
    ELSE LET m == SeriesMin(Tail(s))
         IN IF m = NaT \/ Head(s) < m THEN Head(s) ELSE m

\* pd.concat(list, ignore_index=True): the rows of the tables, in list order.
RECURSIVE Concat(_)
Concat(tables) ==
    IF tables = <<>> THEN <<>> ELSE Head(tables) \o Concat(Tail(tables))

\* sort_values('time'): ascending by time.
RECURSIVE InsertByTime(_, _)
InsertByTime(t, s) ==
    IF s = <<>> THEN <<t>>
    ELSE IF t < Head(s) THEN <<t>> \o s
    ELSE <<Head(s)>> \o InsertByTime(t, Tail(s))

\* Mutant: the combined table is returned as concatenated, not sorted.
SortByTimeNone(s) == s

RECURSIVE SortByTime(_)
SortByTime(s) ==
    IF s = <<>> THEN <<>>
    ELSE InsertByTime(s[Len(s)], SortByTime(SubSeq(s, 1, Len(s) - 1)))

\* ------------------------------------------------------------- exceptions
NoExc == [name |-> "", msg |-> ""]

NoDataError == [name |-> "ValueError", msg |-> "No data files found in the specified range"]

ObjectDisposed == [name |-> "ObjectDisposedException", msg |-> "webview"]

DisposedMessage == [name |-> "InvalidOperationException", msg |-> "Cannot access a Disposed object"]

OtherError == [name |-> "RuntimeError", msg |-> "update failed"]

SystemExit == [name |-> "SystemExit", msg |-> ""]

\* Exceptions a chart call can raise once the window is gone.
ClosedExcs == {ObjectDisposed, DisposedMessage}

\* "ObjectDisposedException" in str(type(e).__name__)
NameHasObjectDisposed(e) == e.name \in {"ObjectDisposedException"}

\* "disposed" in str(e).lower()
MsgHasDisposed(e) == e.msg \in {"Cannot access a Disposed object"}

\* The window-closed test of the replay loop's except clause.
IsDisposed(e) == NameHasObjectDisposed(e) \/ MsgHasDisposed(e)

\* Mutant: the top-level except clause reports every exception.
IsReportedAlways(e) == TRUE

\* The test of the top-level except clause: the exception is reported.
IsReported(e) == ~NameHasObjectDisposed(e) /\ ~MsgHasDisposed(e)

\* ------------------------------------------------------------------- log
Line(kind, day, e) == [kind |-> kind, day |-> day, exc |-> e]

\* ---------------------------------------------------------------- loader
AbsentFile == [exists |-> FALSE, rows |-> <<>>]

TablesUpTo(n) == UNION {[1..m -> Times] : m \in 0..n}

DayFiles(n) == {AbsentFile} \cup {[exists |-> TRUE, rows |-> r] : r \in TablesUpTo(n)}

\* Mutant: a missing day yields an empty table instead of being skipped.
RECURSIVE LoadLoopKeepsMissing(_, _, _, _)
LoadLoopKeepsMissing(fs, current_date, end_date, acc) ==
    IF current_date > end_date THEN acc
    ELSE LoadLoopKeepsMissing(fs, current_date + 1, end_date,
            IF fs[current_date].exists
            THEN [dfs |-> Append(acc.dfs, fs[current_date].rows),
                  out |-> Append(acc.out, Line("loading", current_date, NoExc))]
            ELSE [dfs |-> Append(acc.dfs, <<>>),
                  out |-> Append(acc.out, Line("warning", current_date, NoExc))])

\* The while loop over the calendar days of [start_date, end_date].
RECURSIVE LoadLoop(_, _, _, _)
LoadLoop(fs, current_date, end_date, acc) ==
    IF current_date > end_date THEN acc
    ELSE LoadLoop(fs, current_date + 1, end_date,
            IF fs[current_date].exists
            THEN [dfs |-> Append(acc.dfs, fs[current_date].rows),
                  out |-> Append(acc.out, Line("loading", current_date, NoExc))]
            ELSE [dfs |-> acc.dfs,
                  out |-> Append(acc.out, Line("warning", current_date, NoExc))])

\* Mutant: an empty result is returned instead of raising.
load_date_rangeNoRaise(fs, start_date, end_date) ==
    LET r == LoadLoop(fs, start_date, end_date, [dfs |-> <<>>, out |-> <<>>])
    IN [exc |-> NoExc, dfs |-> r.dfs, out |-> r.out]

\* Chart-realtime.py load_date_range: the list of per-day tables.
load_date_range(fs, start_date, end_date) ==
    LET r == LoadLoop(fs, start_date, end_date, [dfs |-> <<>>, out |-> <<>>])
    IN IF r.dfs = <<>>
       THEN [exc |-> NoDataError, dfs |-> <<>>, out |-> r.out]
       ELSE [exc |-> NoExc, dfs |-> r.dfs, out |-> r.out]

\* Chart-static.py load_date_range: one combined table, sorted by time.
load_date_range_static(fs, start_date, end_date) ==
    LET r == LoadLoop(fs, start_date, end_date, [dfs |-> <<>>, out |-> <<>>])
    IN IF r.dfs = <<>>
       THEN [exc |-> NoDataError, df |-> <<>>, out |-> r.out]
       ELSE [exc |-> NoExc, df |-> SortByTime(Concat(r.dfs)), out |-> r.out]

\* ----------------------------------------------------------------- fills
Sides == {"BUY", "SELL"}
Tags == {"tp"}

\* Rows of the trade log: an opening fill carries no exit tag.
FillRows ==
    [time : Times, role : {"open"}, side : Sides, tag : {"entry"}]
    \cup [time : Times, role : {"close"}, side : Sides, tag : Tags]

\* pd.read_csv: the rows get the index labels 1..n.
read_fills(rows) ==
    [n \in 1..Len(rows) |->
        [idx |-> n, time |-> rows[n].time, role |-> rows[n].role,
         side |-> rows[n].side, tag |-> rows[n].tag]]

\* Mutant: the upper bound of the window is exclusive.
InWindowExclusiveEnd(f, start_time, end_time) ==
    TimeLe(start_time, f.time) /\ TimeLe(f.time, end_time) /\ f.time # end_time

\* fills[(fills['time'] >= start_time) & (fills['time'] <= end_time)]
InWindow(f, start_time, end_time) == TimeLe(start_time, f.time) /\ TimeLe(f.time, end_time)

filter_fills(fs, start_time, end_time) ==
    LET Keep(f) == InWindow(f, start_time, end_time) IN SelectSeq(fs, Keep)

\* Chart-static.py's copy of the same filter.
InWindowStatic(f, start_time, end_time) == TimeLe(start_time, f.time) /\ TimeLe(f.time, end_time)

filter_fills_static(fs, start_time, end_time) ==
    LET Keep(f) == InWindowStatic(f, start_time, end_time) IN SelectSeq(fs, Keep)

\* --------------------------------------------------------------- markers
Marker(t, position, shape, color, text) ==
    [time |-> t, position |-> position, shape |-> shape, color |-> color, text |-> text]

\* The marker loop body of Chart-static.py.
MarkerStatic(trade) ==
    IF trade.role = "open"
    THEN IF trade.side = "BUY"
         THEN Marker(trade.time, "below", "arrow_up", "#26a69a", <<"LONG">>)
         ELSE Marker(trade.time, "above", "arrow_down", "#ef5350", <<"SHORT">>)
    ELSE IF trade.side = "SELL"
         THEN Marker(trade.time, "above", "circle", "#4caf50", <<"EXIT", trade.tag>>)
         ELSE Marker(trade.time, "below", "circle", "#ff5252", <<"EXIT", trade.tag>>)

\* The initial marker loop body of Chart-realtime.py.
MarkerInitial(trade) ==
    IF trade.role = "open"
    THEN IF trade.side = "BUY"
         THEN Marker(trade.time, "below", "arrow_up", "#26a69a", <<"LONG">>)
         ELSE Marker(trade.time, "above", "arrow_down", "#ef5350", <<"SHORT">>)
    ELSE IF trade.side = "SELL"
         THEN Marker(trade.time, "above", "circle", "#4caf50", <<"EXIT", trade.tag>>)
         ELSE Marker(trade.time, "below", "circle", "#ff5252", <<"EXIT", trade.tag>>)

\* Mutant: a closing BUY is drawn like a closing SELL.
MarkerReplayOneExitStyle(trade) ==
    IF trade.role = "open"
    THEN IF trade.side = "BUY"
         THEN Marker(trade.time, "below", "arrow_up", "#26a69a", <<"LONG">>)
         ELSE Marker(trade.time, "above", "arrow_down", "#ef5350", <<"SHORT">>)
    ELSE Marker(trade.time, "above", "circle", "#4caf50", <<"EXIT", trade.tag>>)

\* The replay marker loop body of Chart-realtime.py.
MarkerReplay(trade) ==
    IF trade.role = "open"
    THEN IF trade.side = "BUY"
         THEN Marker(trade.time, "below", "arrow_up", "#26a69a", <<"LONG">>)
         ELSE Marker(trade.time, "above", "arrow_down", "#ef5350", <<"SHORT">>)
    ELSE IF trade.side = "SELL"
         THEN Marker(trade.time, "above", "circle", "#4caf50", <<"EXIT", trade.tag>>)
         ELSE Marker(trade.time, "below", "circle", "#ff5252", <<"EXIT", trade.tag>>)

\* The subchart marker loop body of Chart-static.py.
MarkerSubchart(trade) ==
    IF trade.role = "open"
    THEN IF trade.side = "BUY"
         THEN Marker(trade.time, "below", "arrow_up", "#26a69a", <<"LONG">>)
         ELSE Marker(trade.time, "above", "arrow_down", "#ef5350", <<"SHORT">>)
    ELSE IF trade.side = "SELL"
         THEN Marker(trade.time, "above", "circle", "#4caf50", <<"EXIT", trade.tag>>)
         ELSE Marker(trade.time, "below", "circle", "#ff5252", <<"EXIT", trade.tag>>)

\* One chart.marker / subchart.marker call, as the chart received it.
Draw(pass, target, trade, m) == [pass |-> pass, target |-> target, row |-> trade.idx, m |-> m]

\* ------------------------------------------------------------------ state
VARIABLES
    variant,        \* which script runs: "live", "static"; "load", "filter" for the function checks
    pc,             \* position in the script
    startDate,      \* START_DATE / start_date
    endDate,        \* END_DATE / end_date
    files,          \* the day files of the 1-minute directory, by day
    dfs,            \* live: the loader's list of per-day tables
    df_1m,          \* static: the combined 1-minute table
    df_1s,          \* static: the combined 1-second table
    rawFills,       \* the trade log as read
    start_time,     \* first candle time of the loaded range
    end_time,       \* last candle time of the loaded range
    fills,          \* the window-filtered fills
    chart,          \* the global chart handle exists
    setCalls,       \* chart.set / subchart.set calls received
    pushed,         \* candles received through chart.update, in order
    drawn,          \* marker calls received, in order
    shown,          \* the window has been shown
    alive,          \* chart.is_alive: the user has not closed the window
    i,              \* replay loop: position in df_remaining
    k,              \* marker loops: position in the fills being drawn
    window_closed,  \* the replay loop's flag
    exc,            \* the exception that ended the run, NoExc if none
    excAt,          \* the position at which that exception was raised
    out,            \* printed lines
    exitCalls,      \* chart.exit() calls
    exitCode        \* process exit status, NaT while running

vars == <<variant, pc, startDate, endDate, files, dfs, df_1m, df_1s, rawFills,
          start_time, end_time, fills, chart, setCalls, pushed, drawn, shown,
          alive, i, k, window_closed, exc, excAt, out, exitCalls, exitCode>>

dataVars == <<startDate, endDate, files, dfs, df_1m, df_1s, rawFills,
              start_time, end_time, fills>>

chartVars == <<setCalls, pushed, drawn, shown>>

Running == exitCode = NaT

InitCommon ==
    /\ startDate = 1 /\ endDate = 0 /\ files = <<>>
    /\ dfs = <<>> /\ df_1m = <<>> /\ df_1s = <<>>
    /\ rawFills = <<>> /\ start_time = NaT /\ end_time = NaT /\ fills = <<>>
    /\ chart = FALSE /\ setCalls = <<>> /\ pushed = <<>> /\ drawn = <<>>
    /\ shown = FALSE /\ alive = TRUE
    /\ i = 0 /\ k = 0 /\ window_closed = FALSE
    /\ exc = NoExc /\ excAt = "" /\ out = <<>> /\ exitCalls = 0 /\ exitCode = NaT

\* The inputs of a run: the configured date range with the day files the
\* loader probes, and the trade log.
Ranges == {<<s, e>> : s \in {1}, e \in 0..MaxDay}

FileSystems(s, e, n) == [s..e -> DayFiles(n)]

FillLogs == UNION {[1..m -> FillRows] : m \in 0..MaxFills}

\* ------------------------------------------------- live run: derived data
\* df1 = dfs[0]
df1 == dfs[1]

\* df_remaining = pd.concat(dfs[1:], ignore_index=True)
df_remaining == Concat(Tail(dfs))

\* df_all = pd.concat(dfs, ignore_index=True)
df_all == Concat(dfs)

\* df1_max_time = df1['time'].max()
df1_max_time == SeriesMax(df1)

\* fills_df1 = fills[fills['time'] <= df1_max_time]
FillsDf1(fs, boundary) ==
    LET Keep(f) == TimeLe(f.time, boundary) IN SelectSeq(fs, Keep)

\* Mutant: the fills at the boundary are also left for the replay.
FillsRemainingInclusive(fs, boundary) ==
    LET Keep(f) == TimeLe(boundary, f.time) IN SelectSeq(fs, Keep)

\* fills_remaining = fills[fills['time'] > df1_max_time]
FillsRemaining(fs, boundary) ==
    LET Keep(f) == TimeGt(f.time, boundary) IN SelectSeq(fs, Keep)

\* Mutant: the lookup takes every fill up to the candle's time.
TradesUpToTime(fs, current_time) ==
    LET Keep(f) == TimeLe(f.time, current_time) IN SelectSeq(fs, Keep)

\* trades_at_time = fills_remaining[fills_remaining['time'] == current_time]
TradesAtTime(fs, current_time) ==
    LET Keep(f) == TimeEq(f.time, current_time) IN SelectSeq(fs, Keep)

fills_df1 == FillsDf1(fills, df1_max_time)

fills_remaining == FillsRemaining(fills, df1_max_time)

trades_at_time == TradesAtTime(fills_remaining, df_remaining[i])

\* --------------------------------------------- live run: leaving the script
\* Mutant: the error message is printed without the trace.
TopLevelNoTrace(e, log) ==
    LET caught ==
            IF e = NoExc \/ e.name = "SystemExit" THEN log
            ELSE IF e.name = "KeyboardInterrupt"
                 THEN Append(log, Line("interrupt", 0, e))
            ELSE IF IsReported(e)
                 THEN Append(log, Line("error", 0, e))
            ELSE log
    IN Append(caught, Line("chart_closed", 0, NoExc))

\* The except clauses and the finally clause of the live script, applied to
\* the exception e that reached them (NoExc: the try block completed).
TopLevel(e, log) ==
    LET caught ==
            IF e = NoExc \/ e.name = "SystemExit" THEN log
            ELSE IF e.name = "KeyboardInterrupt"
                 THEN Append(log, Line("interrupt", 0, e))
            ELSE IF IsReported(e)
                 THEN log \o <<Line("error", 0, e), Line("traceback", 0, e)>>
            ELSE log
    IN Append(caught, Line("chart_closed", 0, NoExc))

\* The exception e leaves the try block (or the block completes): handlers,
\* finally, os._exit(0).
Leave(e, log) ==
    /\ exc' = e
    /\ excAt' = IF e = NoExc THEN "" ELSE pc
    /\ out' = TopLevel(e, log)
    /\ exitCode' = 0
    /\ pc' = "done"

\* The replay loop's except clause: TRUE when the loop breaks as "window
\* closed", FALSE when the exception is raised again.
ReplayBreaks(e) == IsDisposed(e)

\* What a chart call can raise.
ChartFaults == {OtherError} \cup (IF alive THEN {} ELSE ClosedExcs)

\* ------------------------------------------------------ live run: actions
\* chart = Chart(toolbox=True)
LiveNewChart ==
    /\ variant = "live" /\ pc = "start"
    /\ chart' = TRUE
    /\ pc' = "load"
    /\ UNCHANGED <<variant, dataVars, chartVars, alive, i, k, window_closed,
                   exc, excAt, out, exitCalls, exitCode>>

\* dfs = load_date_range(START_DATE, END_DATE)
LiveLoad ==
    /\ variant = "live" /\ pc = "load"
    /\ \E r \in Ranges : \E fs \in FileSystems(r[1], r[2], MaxRows) :
          LET res == load_date_range(fs, r[1], r[2])
          IN /\ startDate' = r[1] /\ endDate' = r[2] /\ files' = fs
             /\ dfs' = res.dfs
             /\ IF res.exc # NoExc
                THEN Leave(res.exc, out)
                ELSE /\ pc' = "len_check"
                     /\ UNCHANGED <<exc, excAt, out, exitCode>>
    /\ UNCHANGED <<variant, df_1m, df_1s, rawFills, start_time, end_time, fills,
                   chart, chartVars, alive, i, k, window_closed, exitCalls>>

\* if len(dfs) < 2: print error; sys.exit(1). The SystemExit it raises is
\* caught by no except clause; the finally clause then runs os._exit(0),
\* which ends the process with status 0 whatever status was asked for.
LiveLenCheck ==
    /\ variant = "live" /\ pc = "len_check"
    /\ IF Len(dfs) < 2
       THEN Leave(SystemExit, Append(out, Line("need_two_days", 0, NoExc)))
       ELSE /\ pc' = "read_fills"
            /\ UNCHANGED <<exc, excAt, out, exitCode>>
    /\ UNCHANGED <<variant, dataVars, chart, chartVars, alive, i, k,
                   window_closed, exitCalls>>

\* The trade log is read and filtered to the loaded candle range.
LiveReadFills ==
    /\ variant = "live" /\ pc = "read_fills"
    /\ \E log \in FillLogs :
          /\ start_time' = SeriesMin(df_all)
          /\ end_time' = SeriesMax(df_all)
          /\ fills' = filter_fills(read_fills(log), SeriesMin(df_all), SeriesMax(df_all))
    /\ pc' = "set"
    /\ UNCHANGED <<variant, startDate, endDate, files, dfs, df_1m, df_1s, rawFills,
                   chart, chartVars, alive, i, k, window_closed, exc, excAt, out,
                   exitCalls, exitCode>>

\* chart.set(df1); chart.legend(...)
LiveSet ==
    /\ variant = "live" /\ pc = "set"
    /\ setCalls' = Append(setCalls, [target |-> "chart", df |-> df1])
    /\ pc' = "init_markers"
    /\ k' = 1
    /\ UNCHANGED <<variant, dataVars, chart, pushed, drawn, shown, alive, i,
                   window_closed, exc, excAt, out, exitCalls, exitCode>>

\* One iteration of the initial marker loop over fills_df1.
LiveInitialMarker ==
    /\ variant = "live" /\ pc = "init_markers" /\ k <= Len(fills_df1)
    /\ \/ /\ drawn' = Append(drawn, Draw("initial", "chart", fills_df1[k],
                                          MarkerInitial(fills_df1[k])))
          /\ k' = k + 1
          /\ UNCHANGED <<pc, exc, excAt, out, exitCode>>
       \/ /\ \E e \in ChartFaults : Leave(e, out)
          /\ UNCHANGED <<drawn, k>>
    /\ UNCHANGED <<variant, dataVars, chart, setCalls, pushed, shown, alive, i,
                   window_closed, exitCalls>>

\* chart.show(block=False); fills_remaining; window_closed = False
LiveShow ==
    /\ variant = "live" /\ pc = "init_markers" /\ k > Len(fills_df1)
    /\ shown' = TRUE
    /\ window_closed' = FALSE
    /\ i' = 1
    /\ pc' = "replay"
    /\ UNCHANGED <<variant, dataVars, chart, setCalls, pushed, drawn, alive, k,
                   exc, excAt, out, exitCalls, exitCode>>

\* The user closes the window.
CloseWindow ==
    /\ Running /\ shown /\ alive
    /\ alive' = FALSE
    /\ UNCHANGED <<variant, pc, dataVars, chart, chartVars, i, k, window_closed,
                   exc, excAt, out, exitCalls, exitCode>>

\* Top of a replay iteration: if not chart.is_alive: ... break
LiveReplayCheck ==
    /\ variant = "live" /\ pc = "replay" /\ i <= Len(df_remaining)
    /\ IF ~alive
       THEN /\ window_closed' = TRUE
            /\ out' = Append(out, Line("window_closed", 0, NoExc))
            /\ pc' = "show_async"
       ELSE /\ pc' = "update"
            /\ UNCHANGED <<window_closed, out>>
    /\ UNCHANGED <<variant, dataVars, chart, chartVars, alive, i, k, exc, excAt,
                   exitCalls, exitCode>>

\* chart.update(series) and the lookup of the trades at its time, with the
\* except clause of the try block.
LiveUpdate ==
    /\ variant = "live" /\ pc = "update"
    /\ \/ /\ pushed' = Append(pushed, df_remaining[i])
          /\ k' = 1
          /\ pc' = "replay_markers"
          /\ UNCHANGED <<window_closed, exc, excAt, out, exitCode>>
       \/ \E e \in ChartFaults :
             /\ IF ReplayBreaks(e)
                THEN /\ window_closed' = TRUE
                     /\ out' = Append(out, Line("window_closed", 0, NoExc))
                     /\ pc' = "show_async"
                     /\ UNCHANGED <<exc, excAt, exitCode>>
                ELSE /\ Leave(e, out)
                     /\ UNCHANGED window_closed
             /\ UNCHANGED <<pushed, k>>
    /\ UNCHANGED <<variant, dataVars, chart, setCalls, drawn, shown, alive, i,
                   exitCalls>>

\* One iteration of the replay marker loop over trades_at_time, outside the
\* try block.
LiveReplayMarker ==
    /\ variant = "live" /\ pc = "replay_markers" /\ k <= Len(trades_at_time)
    /\ \/ /\ drawn' = Append(drawn, Draw("replay", "chart", trades_at_time[k],
                                          MarkerReplay(trades_at_time[k])))
          /\ k' = k + 1
          /\ UNCHANGED <<pc, exc, excAt, out, exitCode>>
       \/ /\ \E e \in ChartFaults : Leave(e, out)
          /\ UNCHANGED <<drawn, k>>
    /\ UNCHANGED <<variant, dataVars, chart, setCalls, pushed, shown, alive, i,
                   window_closed, exitCalls>>

\* sleep(0.05), then the next candle.
LiveSleep ==
    /\ variant = "live" /\ pc = "replay_markers" /\ k > Len(trades_at_time)
    /\ i' = i + 1
    /\ pc' = "replay"
    /\ UNCHANGED <<variant, dataVars, chart, chartVars, alive, k, window_closed,
                   exc, excAt, out, exitCalls, exitCode>>

\* The loop is exhausted.
LiveReplayEnd ==
    /\ variant = "live" /\ pc = "replay" /\ i > Len(df_remaining)
    /\ pc' = "show_async"
    /\ UNCHANGED <<variant, dataVars, chart, chartVars, alive, i, k,
                   window_closed, exc, excAt, out, exitCalls, exitCode>>

\* asyncio.run(chart.show_async()): returns once the window is closed.
LiveShowAsync ==
    /\ variant = "live" /\ pc = "show_async"
    /\ \/ /\ ~alive
          /\ Leave(NoExc, out)
       \/ \E e \in ChartFaults : Leave(e, out)
    /\ UNCHANGED <<variant, dataVars, chart, chartVars, alive, i, k,
                   window_closed, exitCalls>>

\* Mutant: chart.exit() is called outside any try block, so its failure
\* reaches the top-level except clause.
signal_handlerUnguarded(failed, log) ==
    LET l1 == Append(log, Line("interrupt", 0, NoExc))
    IN IF chart /\ failed
       THEN l1 \o <<Line("error", 0, OtherError), Line("traceback", 0, OtherError)>>
       ELSE l1

\* signal_handler, run when SIGINT arrives: chart.exit() if the handle
\* exists, a failure of it printed, then sys.exit(0), which no except clause
\* of the script catches.
signal_handler(failed, log) ==
    LET l1 == Append(log, Line("interrupt", 0, NoExc))
    IN IF chart /\ failed THEN Append(l1, Line("cleanup_error", 0, OtherError)) ELSE l1

LiveInterrupt ==
    /\ variant = "live" /\ Running
    /\ exitCalls' = IF chart THEN exitCalls + 1 ELSE exitCalls
    /\ \E failed \in BOOLEAN : Leave(SystemExit, signal_handler(failed, out))
    /\ UNCHANGED <<variant, dataVars, chart, chartVars, alive, i, k,
                   window_closed>>

\* ---------------------------------------------------- static run: actions
\* An exception nothing catches: the interpreter prints the traceback and
\* the process ends with status 1.
Uncaught(e) ==
    /\ exc' = e
    /\ excAt' = pc
    /\ out' = Append(out, Line("traceback", 0, e))
    /\ exitCode' = 1
    /\ pc' = "done"

\* chart = Chart(toolbox=True, inner_width=1.0, inner_height=0.6)
StaticNewChart ==
    /\ variant = "static" /\ pc = "start"
    /\ chart' = TRUE
    /\ pc' = "load_1m"
    /\ UNCHANGED <<variant, dataVars, chartVars, alive, i, k, window_closed,
                   exc, excAt, out, exitCalls, exitCode>>

\* df_1m = load_date_range(..., timeframe='1m')
StaticLoad1m ==
    /\ variant = "static" /\ pc = "load_1m"
    /\ \E r \in Ranges : \E fs \in FileSystems(r[1], r[2], MaxRows) :
          LET res == load_date_range_static(fs, r[1], r[2])
          IN /\ df_1m' = res.df
             /\ IF res.exc # NoExc
                THEN Uncaught(res.exc)
                ELSE /\ pc' = "read_fills"
                     /\ UNCHANGED <<exc, excAt, out, exitCode>>
    /\ UNCHANGED <<variant, startDate, endDate, files, dfs, df_1s, rawFills,
                   start_time, end_time, fills, chart, chartVars, alive, i, k,
                   window_closed, exitCalls>>

\* The trade log is read and filtered to the 1-minute candle range.
StaticReadFills ==
    /\ variant = "static" /\ pc = "read_fills"
    /\ \E log \in FillLogs :
          /\ start_time' = SeriesMin(df_1m)
          /\ end_time' = SeriesMax(df_1m)
          /\ fills' = filter_fills_static(read_fills(log), SeriesMin(df_1m), SeriesMax(df_1m))
    /\ pc' = "set"
    /\ UNCHANGED <<variant, startDate, endDate, files, dfs, df_1m, df_1s, rawFills,
                   chart, chartVars, alive, i, k, window_closed, exc, excAt, out,
                   exitCalls, exitCode>>

\* chart.set(df_1m)
StaticSet ==
    /\ variant = "static" /\ pc = "set"
    /\ setCalls' = Append(setCalls, [target |-> "chart", df |-> df_1m])
    /\ pc' = "markers"
    /\ k' = 1
    /\ UNCHANGED <<variant, dataVars, chart, pushed, drawn, shown, alive, i,
                   window_closed, exc, excAt, out, exitCalls, exitCode>>

\* One iteration of the marker loop of the 1-minute chart.
StaticMarker ==
    /\ variant = "static" /\ pc = "markers" /\ k <= Len(fills)
    /\ drawn' = Append(drawn, Draw("static", "chart", fills[k], MarkerStatic(fills[k])))
    /\ k' = k + 1
    /\ UNCHANGED <<variant, pc, dataVars, chart, setCalls, pushed, shown, alive,
                   i, window_closed, exc, excAt, out, exitCalls, exitCode>>

\* chart.legend, chart.create_subchart, df_1s = load_date_range(..., '1s')
StaticLoad1s ==
    /\ variant = "static" /\ pc = "markers" /\ k > Len(fills)
    /\ \E r \in Ranges : \E fs \in FileSystems(r[1], r[2], MaxRows) :
          LET res == load_date_range_static(fs, r[1], r[2])
          IN /\ df_1s' = res.df
             /\ IF res.exc # NoExc
                THEN Uncaught(res.exc)
                ELSE /\ pc' = "sub_set"
                     /\ UNCHANGED <<exc, excAt, out, exitCode>>
    /\ UNCHANGED <<variant, startDate, endDate, files, dfs, df_1m, rawFills,
                   start_time, end_time, fills, chart, chartVars, alive, i, k,
                   window_closed, exitCalls>>

\* subchart.set(df_1s)
StaticSubSet ==
    /\ variant = "static" /\ pc = "sub_set"
    /\ setCalls' = Append(setCalls, [target |-> "subchart", df |-> df_1s])
    /\ pc' = "sub_markers"
    /\ k' = 1
    /\ UNCHANGED <<variant, dataVars, chart, pushed, drawn, shown, alive, i,
                   window_closed, exc, excAt, out, exitCalls, exitCode>>

\* One iteration of the marker loop of the 1-second subchart.
StaticSubMarker ==
    /\ variant = "static" /\ pc = "sub_markers" /\ k <= Len(fills)
    /\ drawn' = Append(drawn, Draw("static", "subchart", fills[k], MarkerSubchart(fills[k])))
    /\ k' = k + 1
    /\ UNCHANGED <<variant, pc, dataVars, chart, setCalls, pushed, shown, alive,
                   i, window_closed, exc, excAt, out, exitCalls, exitCode>>

\* subchart.legend, subchart.time_scale, chart.show(block=True)
StaticShow ==
    /\ variant = "static" /\ pc = "sub_markers" /\ k > Len(fills)
    /\ shown' = TRUE
    /\ pc' = "blocked"
    /\ UNCHANGED <<variant, dataVars, chart, setCalls, pushed, drawn, alive, i, k,
                   window_closed, exc, excAt, out, exitCalls, exitCode>>

\* show(block=True) returns when the window is closed; sys.exit(0)
StaticExit ==
    /\ variant = "static" /\ pc = "blocked" /\ ~alive
    /\ exitCode' = 0
    /\ pc' = "done"
    /\ UNCHANGED <<variant, dataVars, chart, chartVars, alive, i, k,
                   window_closed, exc, excAt, out, exitCalls>>

\* --------------------------------------------------------- specification
Init == InitCommon /\ variant \in {"live", "static"} /\ pc = "start"

Next ==
    \/ LiveNewChart \/ LiveLoad \/ LiveLenCheck \/ LiveReadFills \/ LiveSet
    \/ LiveInitialMarker \/ LiveShow \/ LiveReplayCheck
    \/ LiveUpdate \/ LiveReplayMarker \/ LiveSleep \/ LiveReplayEnd
    \/ LiveShowAsync \/ LiveInterrupt
    \/ StaticNewChart \/ StaticLoad1m \/ StaticReadFills \/ StaticSet
    \/ StaticMarker \/ StaticLoad1s \/ StaticSubSet \/ StaticSubMarker
    \/ StaticShow \/ StaticExit
    \/ CloseWindow

Spec == Init /\ [][Next]_vars

\* ------------------------------------------- the loader, called on its own
\* load_date_range of Chart-realtime.py applied to a date range and the day
\* files of its directory.
CallLoadLive ==
    /\ variant = "load" /\ pc = "call"
    /\ \E r \in Ranges : \E fs \in FileSystems(r[1], r[2], MaxRows) :
          LET res == load_date_range(fs, r[1], r[2])
          IN /\ startDate' = r[1] /\ endDate' = r[2] /\ files' = fs
             /\ dfs' = res.dfs /\ out' = res.out /\ exc' = res.exc
    /\ pc' = "returned_live"
    /\ UNCHANGED <<variant, df_1m, df_1s, rawFills, start_time, end_time, fills,
                   chart, chartVars, alive, i, k, window_closed, excAt,
                   exitCalls, exitCode>>

\* load_date_range of Chart-static.py applied to the same.
CallLoadStatic ==
    /\ variant = "load" /\ pc = "call"
    /\ \E r \in Ranges : \E fs \in FileSystems(r[1], r[2], MaxRows) :
          LET res == load_date_range_static(fs, r[1], r[2])
          IN /\ startDate' = r[1] /\ endDate' = r[2] /\ files' = fs
             /\ df_1m' = res.df /\ out' = res.out /\ exc' = res.exc
    /\ pc' = "returned_static"
    /\ UNCHANGED <<variant, dfs, df_1s, rawFills, start_time, end_time, fills,
                   chart, chartVars, alive, i, k, window_closed, excAt,
                   exitCalls, exitCode>>

InitLoad == InitCommon /\ variant = "load" /\ pc = "call"

NextLoad == CallLoadLive \/ CallLoadStatic

SpecLoad == InitLoad /\ [][NextLoad]_vars

\* --------------------------------------- the fills filter, applied on its own
\* The filter expression of Chart-realtime.py applied to a trade log and a
\* window.
FilterLive ==
    /\ variant = "filter" /\ pc = "call"
    /\ \E log \in FillLogs, t0 \in Times, t1 \in Times :
          /\ rawFills' = read_fills(log)
          /\ start_time' = t0 /\ end_time' = t1
          /\ fills' = filter_fills(read_fills(log), t0, t1)
    /\ pc' = "filtered_live"
    /\ UNCHANGED <<variant, startDate, endDate, files, dfs, df_1m, df_1s, chart,
                   chartVars, alive, i, k, window_closed, exc, excAt, out,
                   exitCalls, exitCode>>

\* The filter expression of Chart-static.py applied to the same.
FilterStatic ==
    /\ variant = "filter" /\ pc = "call"
    /\ \E log \in FillLogs, t0 \in Times, t1 \in Times :
          /\ rawFills' = read_fills(log)
          /\ start_time' = t0 /\ end_time' = t1
          /\ fills' = filter_fills_static(read_fills(log), t0, t1)
    /\ pc' = "filtered_static"
    /\ UNCHANGED <<variant, startDate, endDate, files, dfs, df_1m, df_1s, chart,
                   chartVars, alive, i, k, window_closed, exc, excAt, out,
                   exitCalls, exitCode>>

\* The same filter applied to its own result.
FilterAgainLive ==
    /\ variant = "filter" /\ pc = "filtered_live"
    /\ fills' = filter_fills(fills, start_time, end_time)
    /\ pc' = "refiltered_live"
    /\ UNCHANGED <<variant, startDate, endDate, files, dfs, df_1m, df_1s, rawFills,
                   start_time, end_time, chart, chartVars, alive, i, k,
                   window_closed, exc, excAt, out, exitCalls, exitCode>>

FilterAgainStatic ==
    /\ variant = "filter" /\ pc = "filtered_static"
    /\ fills' = filter_fills_static(fills, start_time, end_time)
    /\ pc' = "refiltered_static"
    /\ UNCHANGED <<variant, startDate, endDate, files, dfs, df_1m, df_1s, rawFills,
                   start_time, end_time, chart, chartVars, alive, i, k,
                   window_closed, exc, excAt, out, exitCalls, exitCode>>

InitFilter == InitCommon /\ variant = "filter" /\ pc = "call"

NextFilter == FilterLive \/ FilterStatic \/ FilterAgainLive \/ FilterAgainStatic

SpecFilter == InitFilter /\ [][NextFilter]_vars

\* ================================================================ claims
Range(s) == {s[n] : n \in 1..Len(s)}

IsSorted(s) == \A n \in 1..(Len(s) - 1) : s[n] <= s[n + 1]

Occurrences(s, x) == Cardinality({n \in 1..Len(s) : s[n] = x})

\* The rows of the decision table, keyed by (role, side).
TableRow(role, side, tag) ==
    CASE role = "open" /\ side = "BUY" ->
            [position |-> "below", shape |-> "arrow_up", color |-> "#26a69a", text |-> <<"LONG">>]
      [] role = "open" /\ side = "SELL" ->
            [position |-> "above", shape |-> "arrow_down", color |-> "#ef5350", text |-> <<"SHORT">>]
      [] role = "close" /\ side = "SELL" ->
            [position |-> "above", shape |-> "circle", color |-> "#4caf50", text |-> <<"EXIT", tag>>]
      [] role = "close" /\ side = "BUY" ->
            [position |-> "below", shape |-> "circle", color |-> "#ff5252", text |-> <<"EXIT", tag>>]

FillOfRow(row) == CHOOSE f \in Range(fills) : f.idx = row

MatchesTable(d) ==
    LET f == FillOfRow(d.row)
        row == TableRow(f.role, f.side, f.tag)
    IN /\ d.m.time = f.time
       /\ d.m.position = row.position
       /\ d.m.shape = row.shape
       /\ d.m.color = row.color
       /\ d.m.text = row.text

\* C1: every marker the chart receives, in the static pass (chart and
\* subchart), the live initial pass and the live replay pass, is the row of
\* the decision table for its fill's (role, side), with the fill's time.
C1_MarkersFollowTable ==
    \A n \in 1..Len(drawn) :
        /\ \E f \in Range(fills) : f.idx = drawn[n].row
        /\ MatchesTable(drawn[n])

\* A live run that drew a LONG marker in the initial pass and an EXIT marker
\* during replay.
C1_Witness ==
    /\ variant = "live" /\ Len(drawn) = 2
    /\ drawn[1].pass = "initial" /\ drawn[1].m.text = <<"LONG">>
    /\ drawn[2].pass = "replay" /\ drawn[2].m.text = <<"EXIT", "tp">>
    /\ drawn[2].m.color = "#ff5252"

\* The days of the loaded range, and those whose file exists.
ProbedDays == startDate..endDate

PresentDays == {d \in ProbedDays : files[d].exists}

\* The n-th present day, in calendar order.
NthPresent(n) ==
    CHOOSE d \in PresentDays : Cardinality({x \in PresentDays : x <= d}) = n

Warnings == SelectSeq(out, LAMBDA l : l.kind = "warning")

\* C2: when some day files of the range are absent and at least one is
\* present, the live loader returns without failing, warns once for each
\* absent day, and returns exactly the tables of the present days, in
\* calendar order.
C2_MissingDaysSkipped ==
    (pc = "returned_live" /\ PresentDays # {} /\ PresentDays # ProbedDays) =>
        /\ exc = NoExc
        /\ Len(dfs) = Cardinality(PresentDays)
        /\ \A n \in 1..Len(dfs) : dfs[n] = files[NthPresent(n)].rows
        /\ Len(Warnings) = Cardinality(ProbedDays \ PresentDays)
        /\ \A d \in ProbedDays \ PresentDays :
              \E n \in 1..Len(Warnings) : Warnings[n].day = d
        /\ ~\E n \in 1..Len(out) : out[n].kind \in {"error", "traceback"}

\* Day 2 of 3 is missing: two tables, those of days 1 and 3.
C2_Witness ==
    /\ pc = "returned_live" /\ endDate = 3
    /\ files[1].exists /\ ~files[2].exists /\ files[3].exists
    /\ files[1].rows = <<2>> /\ files[3].rows = <<3>>
    /\ dfs = <<(<<2>>), (<<3>>)>>

\* The live run has executed its call of the loader.
LiveLoadReturned ==
    /\ pc \notin {"start", "load"}
    /\ ~(exc = SystemExit /\ excAt \in {"start", "load"})

\* C3 as stated: whenever the loader fails with NoDataError, no candle data
\* has been set on any chart, no marker has been drawn and the window is
\* not shown.
C3_AbortsBeforeAnyChartCall ==
    /\ (variant = "live" /\ LiveLoadReturned /\ PresentDays = {}) =>
            (pc = "done" /\ exc = NoDataError)
    /\ exc = NoDataError => (setCalls = <<>> /\ drawn = <<>> /\ ~shown)

\* C3, amended: in the live run a range of which no day has a file ends the
\* run with NoDataError; whenever a load fails with NoDataError the run ends
\* with the window never shown and no candle pushed; nothing has been set or
\* drawn when it is the live load or the static 1-minute load that fails,
\* while a failing static 1-second load comes after the 1-minute table was
\* set and its markers drawn on the main chart (nothing reaches the
\* subchart).
C3_AbortsBeforeShow ==
    /\ (variant = "live" /\ LiveLoadReturned /\ PresentDays = {}) =>
            (pc = "done" /\ exc = NoDataError)
    /\ exc = NoDataError =>
        /\ pc = "done" /\ ~shown /\ pushed = <<>>
        /\ excAt \in {"load", "load_1m", "markers"}
        /\ excAt \in {"load", "load_1m"} => (setCalls = <<>> /\ drawn = <<>>)
        /\ excAt = "markers" =>
              /\ variant = "static"
              /\ setCalls = <<[target |-> "chart", df |-> df_1m]>>
              /\ Len(drawn) = Len(fills)
              /\ \A n \in 1..Len(drawn) : drawn[n].target = "chart"

\* The live run over a three-day range with no file at all.
C3_Witness ==
    /\ variant = "live" /\ pc = "done" /\ endDate = 3 /\ PresentDays = {}
    /\ exc = NoDataError /\ setCalls = <<>> /\ ~shown

\* The rows of the day files of the range, in day order and file order.
RECURSIVE FileRowsUpTo(_)
FileRowsUpTo(d) ==
    IF d < startDate THEN <<>> ELSE FileRowsUpTo(d - 1) \o files[d].rows

FileRows == FileRowsUpTo(endDate)

\* N consecutive daily files of M rows each.
UniformDays(M) ==
    /\ endDate >= startDate
    /\ PresentDays = ProbedDays
    /\ \A d \in ProbedDays : Len(files[d].rows) = M

DaysInRange == endDate - startDate + 1

C5_FilterInclusiveIdempotent ==
    (pc \in {"filtered_live", "filtered_static", "refiltered_live", "refiltered_static"}) =>
        /\ \A n \in 1..Len(fills) :
              /\ fills[n].idx \in 1..Len(rawFills)
              /\ fills[n] = rawFills[fills[n].idx]
              /\ start_time <= fills[n].time /\ fills[n].time <= end_time
        /\ \A m \in 1..Len(rawFills) :
              (start_time <= rawFills[m].time /\ rawFills[m].time <= end_time) =>
                  \E n \in 1..Len(fills) : fills[n].idx = m
        /\ \A n \in 1..(Len(fills) - 1) : fills[n].idx < fills[n + 1].idx

\* A fill at exactly start_time and one at exactly end_time, both kept after
\* the second application.
C5_Witness ==
    /\ pc = "refiltered_live" /\ start_time < end_time
    /\ Len(rawFills) = 2
    /\ rawFills[1].time = end_time /\ rawFills[2].time = start_time
    /\ fills = rawFills

\* The live run has its day tables, at least two of them.
Replaying == variant = "live" /\ Len(dfs) >= 2

IsPrefix(s, t) == Len(s) <= Len(t) /\ s = SubSeq(t, 1, Len(s))

ReplayDraws == SelectSeq(drawn, LAMBDA d : d.pass = "replay")

InitialDraws == SelectSeq(drawn, LAMBDA d : d.pass = "initial")

RowsOf(draws) == [n \in 1..Len(draws) |-> draws[n].row]

IdxOf(fs) == [n \in 1..Len(fs) |-> fs[n].idx]

\* The last candle time of the initial table; NaT when it has no row.
Boundary ==
    IF dfs[1] = <<>> THEN NaT
    ELSE CHOOSE t \in Range(dfs[1]) : \A u \in Range(dfs[1]) : u <= t

\* The fills after the boundary ("to arrive during replay"), and those of
\* them at exactly the time t.
Arriving == {f \in Range(fills) : Boundary # NaT /\ f.time > Boundary}

ArrivingAt(t) == SelectSeq(fills, LAMBDA f : f \in Arriving /\ f.time = t)

RECURSIVE ExpectedReplayRows(_)
ExpectedReplayRows(candles) ==
    IF candles = <<>> THEN <<>>
    ELSE ExpectedReplayRows(SubSeq(candles, 1, Len(candles) - 1))
            \o IdxOf(ArrivingAt(candles[Len(candles)]))

\* C6: the candles reach the chart one at a time in the order of the
\* concatenated remaining day tables; when a candle is about to be pushed (or
\* the loop is over) the markers drawn during replay are exactly, candle by
\* candle, those of the fills to arrive whose time equals the candle's time;
\* so no marker is drawn before a candle of its time was pushed, and a fill
\* to arrive whose time is no remaining candle's time is never drawn.
C6_ReplayOrderAndExactMatch ==
    Replaying =>
        /\ IsPrefix(pushed, Concat(Tail(dfs)))
        /\ IsPrefix(RowsOf(ReplayDraws), ExpectedReplayRows(pushed))
        /\ pc \in {"replay", "update", "show_async"} =>
              RowsOf(ReplayDraws) = ExpectedReplayRows(pushed)
        /\ \A n \in 1..Len(ReplayDraws) :
              /\ ReplayDraws[n].m.time = FillOfRow(ReplayDraws[n].row).time
              /\ \E c \in 1..Len(pushed) : pushed[c] = ReplayDraws[n].m.time
        /\ \A f \in Arriving :
              (~\E c \in 1..Len(Concat(Tail(dfs))) : Concat(Tail(dfs))[c] = f.time) =>
                  ~\E n \in 1..Len(drawn) : drawn[n].row = f.idx

\* The remaining candles are 3 then 2, pushed in that order; the fill at 3
\* (second in the log) was drawn before the fill at 2 (first in the log).
C6_Witness ==
    /\ Replaying /\ pc = "replay" /\ pushed = <<3, 2>>
    /\ Len(fills) = 2 /\ fills[1].time = 2 /\ fills[2].time = 3
    /\ RowsOf(ReplayDraws) = <<fills[2].idx, fills[1].idx>>

ErrorLines == SelectSeq(out, LAMBDA l : l.kind \in {"error", "traceback"})

\* The replay loop has noticed that the window is closed: through the
\* liveness flag or a caught disposed condition (window_closed), or through a
\* disposed condition that a chart call of the loop raised past it.
CloseNoticed ==
    \/ window_closed
    \/ exc \in ClosedExcs /\ excAt \in {"update", "replay_markers"}

\* C7: once the replay loop has noticed the closed window, by the flag or by
\* a disposed condition from the candle push or from a marker draw, no
\* further candle is pushed and no further marker drawn; the step that
\* notices it logs no error or trace, a loop iteration that starts with the
\* window closed does not push, and a disposed condition is never logged.
C7_CloseIsNormalTermination ==
    [][/\ CloseNoticed' =>
            /\ pushed' = pushed /\ drawn' = drawn
            /\ pc' \in {"show_async", "done"}
       /\ (CloseNoticed' /\ ~CloseNoticed) => ErrorLines' = <<>>
       /\ (pc = "replay" /\ ~alive /\ i <= Len(df_remaining) /\ pc' # pc) =>
            (window_closed' \/ exc' = SystemExit)
       /\ \A n \in 1..Len(ErrorLines') : ErrorLines'[n].exc \notin ClosedExcs
      ]_vars

\* A marker draw of the replay loop raised a disposed condition after a
\* candle was pushed: the run ended with nothing logged as an error.
C7_Witness ==
    /\ variant = "live" /\ pc = "done"
    /\ exc = DisposedMessage /\ excAt = "replay_markers"
    /\ Len(pushed) = 1 /\ ErrorLines = <<>> /\ exitCode = 0

Interrupted == \E n \in 1..Len(out) : out[n].kind = "interrupt"

\* C8: an interrupt can arrive at every point of the live run; when it has,
\* chart.exit() was called once if the chart handle existed (and only then),
\* a failure of it is printed and nothing of it propagates (no error, no
\* trace), and the process has exited.
C8_InterruptTearsDownAndExits ==
    /\ (variant = "live" /\ Running) => ENABLED LiveInterrupt
    /\ ~Interrupted => exitCalls = 0
    /\ Interrupted =>
        /\ pc = "done" /\ exitCode # NaT
        /\ exitCalls = (IF chart THEN 1 ELSE 0)
        /\ ErrorLines = <<>>
        /\ out[Len(out)].kind = "chart_closed"
        /\ \A n \in 1..Len(out) : out[n].kind = "cleanup_error" => chart

\* An interrupt during replay whose chart.exit() failed.
C8_Witness ==
    /\ Interrupted /\ excAt = "replay_markers" /\ Len(pushed) = 1
    /\ exitCalls = 1 /\ pc = "done"
    /\ \E n \in 1..Len(out) : out[n].kind = "cleanup_error"

\* An exception of the replay loop that is not the window-closed condition.
ReplayError ==
    /\ variant = "live" /\ excAt \in {"update", "replay_markers"}
    /\ exc \notin ClosedExcs \cup {NoExc, SystemExit}

\* C9: an exception raised in the replay loop that is not the window-closed
\* condition ends the loop where it was raised (the candles pushed are those
\* before it), and the error and its trace are the last lines printed before
\* the closing line and the exit; nothing happens after the exit.
C9_OtherExceptionsPropagateAndAreLogged ==
    [][/\ pc # "done"
       /\ ReplayError' =>
            /\ pc' = "done" /\ exitCode' # NaT /\ ~window_closed'
            /\ Len(pushed') = (IF excAt' = "update" THEN i' - 1 ELSE i')
            /\ Len(out') >= 3
            /\ SubSeq(out', Len(out') - 2, Len(out')) =
                  <<Line("error", 0, exc'), Line("traceback", 0, exc'),
                    Line("chart_closed", 0, NoExc)>>
      ]_vars

\* The push of the second remaining candle failed.
C9_Witness ==
    /\ ReplayError /\ exc = OtherError /\ excAt = "update"
    /\ Len(pushed) = 1 /\ i = 2 /\ Len(ErrorLines) = 2

Visible == {f \in Range(fills) : Boundary # NaT /\ f.time <= Boundary}

TooFewDays ==
    /\ variant = "live" /\ pc = "done" /\ excAt = "len_check"
    /\ \E n \in 1..Len(out) : out[n].kind = "need_two_days"

\* C11: in the live run, when the loader returns fewer than 2 day tables,
\* the run goes no further than the check of their number (unless an
\* interrupt ends it first), the error is reported there, the process exits
\* with status 1, and no candle data has been set, no candle pushed, no
\* marker drawn and the window not shown.
C11_TooFewDaysExitsWithStatusOne ==
    /\ (variant = "live" /\ LiveLoadReturned /\ exc # NoDataError
            /\ Len(dfs) < 2 /\ pc # "len_check") =>
            (pc = "done" /\ (TooFewDays \/ Interrupted))
    /\ TooFewDays =>
        /\ Len(dfs) < 2
        /\ exitCode = 1
        /\ setCalls = <<>> /\ pushed = <<>> /\ drawn = <<>> /\ ~shown

\* What the run does in that case: everything C11 states, except that the
\* status the process exits with is 0.
TooFewDaysExitsWithStatusZero ==
    /\ (variant = "live" /\ LiveLoadReturned /\ exc # NoDataError
            /\ Len(dfs) < 2 /\ pc # "len_check") =>
            (pc = "done" /\ (TooFewDays \/ Interrupted))
    /\ TooFewDays =>
        /\ Len(dfs) < 2
        /\ exitCode = 0
        /\ ErrorLines = <<>>
        /\ out[Len(out)].kind = "chart_closed"
        /\ setCalls = <<>> /\ pushed = <<>> /\ drawn = <<>> /\ ~shown

\* A range of three days of which only the second has a file: one day table.
C11_Witness ==
    /\ TooFewDays /\ endDate = 3 /\ PresentDays = {2}
    /\ Len(dfs) = 1 /\ exc = SystemExit /\ chart /\ exitCalls = 0

====
